---- MODULE Spec2Model ----
(***************************************************************************)
(* Stock-mutation subsystem of the inventory server.                       *)
(*                                                                         *)
(* Quantities and stock levels are decimal strings in the source.  They    *)
(* are modelled as integers counting thousandths of the base unit          *)
(* ("mills"): "0.015" is 15, "0.02" is 20.  The numeric(10,2) columns of   *)
(* the schema keep two fractional digits, so every stored value is a       *)
(* multiple of 10.                                                         *)
(*                                                                         *)
(* The database is reached through one postgres-js pool (server/db.ts).    *)
(* db.transaction reserves a pool connection from BEGIN to COMMIT or       *)
(* ROLLBACK; statements issued on `db` outside a transaction need a free   *)
(* pool connection.  Writes of an open transaction are buffered in tx[p]   *)
(* and become visible to others at commit (READ COMMITTED).                *)
(***************************************************************************)
EXTENDS Integers, Sequences, FiniteSets, TLC

\* ------------------------------------------------------------------ bounds
\* Calls are accepted while fewer than MaxTx ids of stock_transactions are in use.
MaxTx == 2

\* --------------------------------------------------------- the connection pool
\* postgres(connectionString, { max: 1 }): the pool holds one connection.
PoolMaxTwo == 1 + 1
PoolMax == 1

\* ------------------------------------------------------------- input sets
Procs == {1, 2}
Users == {1}
UserIds == {1, 2}
\* The ids the products table comes to hold, and the ids a request can name
\* (id 2 names no product).
CreatedIds == {1}
ProductIds == CreatedIds \cup {2}
QtySet == {-10, 0, 15, 20}
OpeningSet == {0, 20}
Types == {"stock_in", "stock_out"}
RandomIds == {1, 1000}

NoStock == 0 - 1000000
\* A PO or SO number that is null or not supplied, and the values tried.
NullNumber == "null"
NumberSet == {NullNumber, "N-1"}
NoRow == [id |-> 0]
NoReq == [type |-> "none", during |-> {}]
NoOut == [kind |-> "none"]
NoProduct == [openingStock |-> NoStock, currentStock |-> NoStock, isActive |-> 0]
NoTx == [previousStock |-> NoStock, newStock |-> NoStock, updated |-> FALSE, row |-> NoRow]
NoChk == [pc |-> "idle", items |-> {}, item |-> NoRow, newAlerts |-> <<>>]
NoCheck == [quiet |-> FALSE, calm |-> FALSE, again |-> FALSE, clean |-> FALSE,
            ntx |-> 0, nprod |-> 0]
NoBatch == [state |-> "none", lines |-> <<>>, results |-> <<>>, failed |-> {}, status |-> 0]

VARIABLES products, openingAtCreate, stockTransactions, stockTxSeq, conn,
          pc, req, tx, helperOut, apiOut

\* weekly plans, low stock alerts, the clock, and the calls that work on them
VARIABLES weeklyStockPlans, lowStockAlerts, now, chk, lastCheck, resolveOut, batch

others == <<weeklyStockPlans, lowStockAlerts, now, chk, lastCheck, resolveOut, batch>>

vars == <<products, openingAtCreate, stockTransactions, stockTxSeq, conn,
          pc, req, tx, helperOut, apiOut,
          weeklyStockPlans, lowStockAlerts, now, chk, lastCheck, resolveOut, batch>>

\* --------------------------------------------------------- pure operators

\* What a numeric(10,2) column keeps of the value x (in mills).  d is the
\* sign of the binary floating point error carried by the text being stored
\* (0 when the text is an exact decimal): a value that lies exactly half-way
\* between two hundredths is rounded away from zero unless the error has
\* moved its text to the other side.
NumericRound(x, d) ==
    LET r == x % 10
        base == x - r
    IN  IF r = 0 THEN x
        ELSE IF r < 5 THEN base
        ELSE IF r > 5 THEN base + 10
        ELSE IF d < 0 THEN base
        ELSE IF d > 0 THEN base + 10
        ELSE IF x > 0 THEN base + 10 ELSE base

ProductExists(prods, id) == id \in 1..Len(prods)

\* select ... from products where id = productId limit 1, then result[0].
SelectProduct(prods, id) == IF ProductExists(prods, id) THEN prods[id] ELSE NoProduct

ProductMissingNever(currentProduct) == FALSE
ProductMissing(currentProduct) == currentProduct = NoProduct

InsufficientNever(currentStockNum, quantityNum) == FALSE
InsufficientOrEqual(currentStockNum, quantityNum) == currentStockNum <= quantityNum
Insufficient(currentStockNum, quantityNum) == currentStockNum < quantityNum

\* The sign of the error of the IEEE-754 double a + b against the exact sum,
\* where it decides the rounding: the pairs <<a, b>>, for the stock levels
\* -200..400 and the quantities of QtySet, whose exact sum lies half-way
\* between two hundredths and whose double prints on the other side of it
\* (-0.01 + 0.015 prints as 0.004999999999999999, 0.01 - 0.015 as
\* -0.004999999999999999).
FloatLow == {<<-10, 15>>, <<150, 15>>, <<180, -15>>, <<210, 15>>, <<240, -15>>,
             <<290, -15>>, <<350, -15>>}
FloatHigh == {<<-180, 15>>, <<-150, -15>>, <<10, -15>>}
FloatError(a, b) ==
    IF <<a, b>> \in FloatLow THEN -1 ELSE IF <<a, b>> \in FloatHigh THEN 1 ELSE 0

\* (parseFloat(previousStock) + parseFloat(quantity)).toString(), as the
\* numeric(10,2) columns keep it; and the same for the difference.
StockInNewStock(previousStock, quantity) ==
    NumericRound(previousStock + quantity, FloatError(previousStock, quantity))
StockOutNewStock(previousStock, quantity) ==
    NumericRound(previousStock - quantity, FloatError(previousStock, 0 - quantity))

\* The foreign keys of stock_transactions: product_id and user_id.
ForeignKeysHold(prods, r) == ProductExists(prods, r.productId) /\ r.userId \in Users

\* processStockIn stores poNumber and soNumber: null, processStockOut stores
\* soNumber and poNumber: null.
InsertRowBothNumbers(id, r, t) ==
    [id |-> id, productId |-> r.productId, userId |-> r.userId, type |-> r.type,
     quantity |-> NumericRound(r.quantity, 0),
     previousStock |-> t.previousStock, newStock |-> t.newStock,
     poNumber |-> r.poNumber, soNumber |-> r.soNumber]
InsertRow(id, r, t) ==
    [id |-> id, productId |-> r.productId, userId |-> r.userId, type |-> r.type,
     quantity |-> NumericRound(r.quantity, 0),
     previousStock |-> t.previousStock, newStock |-> t.newStock,
     poNumber |-> IF r.type = "stock_in" THEN r.poNumber ELSE NullNumber,
     soNumber |-> IF r.type = "stock_in" THEN NullNumber ELSE r.soNumber]

\* update products set currentStock = newStock where id = productId.
UpdateStock(prods, r, t) ==
    IF ProductExists(prods, r.productId)
    THEN [prods EXCEPT ![r.productId].currentStock = t.newStock]
    ELSE prods

\* What the transaction of a request leaves in the products table when it
\* commits and when it is rolled back.
CommitProducts(prods, r, t) == IF t.updated THEN UpdateStock(prods, r, t) ELSE prods

CommitTransactionsReplace(rows, t) ==
    IF t.row = NoRow THEN rows
    ELSE IF rows = <<>> THEN <<t.row>> ELSE [rows EXCEPT ![Len(rows)] = t.row]
CommitTransactions(rows, t) == IF t.row # NoRow THEN Append(rows, t.row) ELSE rows

RollbackKeepsUpdate(prods, r, t) == IF t.updated THEN UpdateStock(prods, r, t) ELSE prods
RollbackProducts(prods, r, t) == prods

\* The object the catch block of createStockTransaction makes up.
Fabricated(r, id) ==
    [id |-> id, productId |-> r.productId, userId |-> r.userId, type |-> r.type,
     quantity |-> r.quantity, previousStock |-> 100000,
     newStock |-> IF r.type = "stock_in" THEN 110000 ELSE 90000,
     poNumber |-> r.poNumber, soNumber |-> r.soNumber]

\* The request bodies tried: every type and quantity for the known user on the
\* product ids that can exist, and one quantity for the unknown user and for
\* the product id that is never created.
Requests ==
    {r \in [type : Types, productId : ProductIds, userId : UserIds, quantity : QtySet,
            poNumber : {NullNumber}, soNumber : {NullNumber}] :
        /\ r.userId \notin Users => r.quantity = 20 /\ r.productId \in CreatedIds
        /\ r.productId \notin CreatedIds => r.quantity = 20}

InFlight == {p \in Procs : pc[p] \in {"begin", "select", "update", "insert", "commit"}}

ConnFree == Cardinality(conn) < PoolMax

\* ------------------------------------------------------------------- Init
Init ==
    /\ products = <<>>
    /\ openingAtCreate = <<>>
    /\ stockTransactions = <<>>
    /\ stockTxSeq = 0
    /\ conn = {}
    /\ pc = [p \in Procs |-> "idle"]
    /\ req = [p \in Procs |-> NoReq]
    /\ tx = [p \in Procs |-> NoTx]
    /\ helperOut = [p \in Procs |-> NoOut]
    /\ apiOut = [p \in Procs |-> NoRow]
    /\ weeklyStockPlans = <<>>
    /\ lowStockAlerts = <<>>
    /\ now = 1
    /\ chk = [p \in Procs |-> NoChk]
    /\ lastCheck = NoCheck
    /\ resolveOut = NoOut
    /\ batch = NoBatch

\* ------------------------------------------------------- product queries
CreateProduct(openingStock) ==
    /\ Len(products) + 1 \in CreatedIds
    /\ UNCHANGED others
    /\ ConnFree
    /\ products' = Append(products,
                          [openingStock |-> NumericRound(openingStock, 0),
                           currentStock |-> NumericRound(openingStock, 0),
                           isActive |-> 1])
    /\ openingAtCreate' = Append(openingAtCreate, NumericRound(openingStock, 0))
    /\ UNCHANGED <<stockTransactions, stockTxSeq, conn, pc, req, tx, helperOut, apiOut>>

UpdateProduct(id, openingStock) ==
    /\ ConnFree
    /\ UNCHANGED others
    /\ ProductExists(products, id)
    /\ products' = [products EXCEPT ![id].openingStock = NumericRound(openingStock, 0)]
    /\ UNCHANGED <<openingAtCreate, stockTransactions, stockTxSeq, conn, pc, req, tx,
                   helperOut, apiOut>>

\* ---------------------------------------- storage.createStockTransaction
\* req[p].during holds the calls that were in progress when p's call started
\* and have not been answered since: the calls p's call is concurrent with.
Call(p, r) ==
    /\ pc[p] = "idle"
    /\ UNCHANGED others
    /\ stockTxSeq + Cardinality(InFlight) < MaxTx
    /\ pc' = [pc EXCEPT ![p] = "begin"]
    /\ req' = [req EXCEPT ![p] = [type |-> r.type, productId |-> r.productId,
                                  userId |-> r.userId, quantity |-> r.quantity,
                                  poNumber |-> r.poNumber, soNumber |-> r.soNumber,
                                  during |-> InFlight]]
    /\ UNCHANGED <<products, openingAtCreate, stockTransactions, stockTxSeq, conn, tx,
                   helperOut, apiOut>>

\* db.transaction(async (tx) => ...): BEGIN on a reserved connection.
TxBegin(p) ==
    /\ pc[p] = "begin"
    /\ UNCHANGED others
    /\ ConnFree
    /\ conn' = conn \cup {p}
    /\ pc' = [pc EXCEPT ![p] = "select"]
    /\ UNCHANGED <<products, openingAtCreate, stockTransactions, stockTxSeq, req, tx,
                   helperOut, apiOut>>

\* What createStockTransaction returns for the outcome of the helper: the
\* transaction of a success, and from its catch block a made-up transaction
\* with a random id.
Returned(r, out, id) == IF out.kind = "ok" THEN out.transaction ELSE Fabricated(r, id)

\* A throw inside the callback: ROLLBACK, release the connection, reject; the
\* rejection lands in the catch block of createStockTransaction.
Throw(p, out) ==
    /\ products' = RollbackProducts(products, req[p], tx[p])
    /\ conn' = conn \ {p}
    /\ pc' = [pc EXCEPT ![p] = "respond"]
    /\ helperOut' = [helperOut EXCEPT ![p] = out]
    /\ \E id \in RandomIds : apiOut' = [apiOut EXCEPT ![p] = Returned(req[p], out, id)]
    /\ UNCHANGED <<openingAtCreate, stockTransactions, req>>

\* select the product, then the checks and the arithmetic up to the update.
TxSelect(p) ==
    /\ pc[p] = "select"
    /\ UNCHANGED others
    /\ LET r == req[p]
           currentProduct == SelectProduct(products, r.productId)
           previousStock == currentProduct.currentStock
       IN  IF ProductMissing(currentProduct)
           THEN /\ Throw(p, [kind |-> "NotFound"])
                /\ UNCHANGED <<stockTxSeq, tx>>
           ELSE IF r.type = "stock_out" /\ Insufficient(previousStock, r.quantity)
           THEN /\ Throw(p, [kind |-> "InsufficientStock",
                             available |-> previousStock, requested |-> r.quantity])
                /\ tx' = [tx EXCEPT ![p].previousStock = previousStock]
                /\ UNCHANGED stockTxSeq
           ELSE /\ tx' = [tx EXCEPT ![p].previousStock = previousStock,
                                    ![p].newStock =
                                        IF r.type = "stock_in"
                                        THEN StockInNewStock(previousStock, r.quantity)
                                        ELSE StockOutNewStock(previousStock, r.quantity)]
                /\ pc' = [pc EXCEPT ![p] = "update"]
                /\ UNCHANGED <<products, openingAtCreate, stockTransactions, stockTxSeq,
                               conn, req, helperOut, apiOut>>

\* update the product row inside the transaction: buffered until commit.
TxUpdate(p) ==
    /\ pc[p] = "update"
    /\ UNCHANGED others
    /\ tx' = [tx EXCEPT ![p].updated = TRUE]
    /\ pc' = [pc EXCEPT ![p] = "insert"]
    /\ UNCHANGED <<products, openingAtCreate, stockTransactions, stockTxSeq, conn, req,
                   helperOut, apiOut>>

\* insert the row; the serial id is drawn even when the insert fails.
TxInsert(p) ==
    /\ pc[p] = "insert"
    /\ UNCHANGED others
    /\ stockTxSeq' = stockTxSeq + 1
    /\ IF ForeignKeysHold(products, req[p])
       THEN /\ tx' = [tx EXCEPT ![p].row = InsertRow(stockTxSeq + 1, req[p], tx[p])]
            /\ pc' = [pc EXCEPT ![p] = "commit"]
            /\ UNCHANGED <<products, openingAtCreate, stockTransactions, conn, req,
                           helperOut, apiOut>>
       ELSE /\ Throw(p, [kind |-> "StorageError"])
            /\ UNCHANGED tx

TxCommit(p) ==
    /\ pc[p] = "commit"
    /\ UNCHANGED others
    /\ products' = CommitProducts(products, req[p], tx[p])
    /\ stockTransactions' = CommitTransactions(stockTransactions, tx[p])
    /\ conn' = conn \ {p}
    /\ pc' = [pc EXCEPT ![p] = "respond"]
    /\ LET out == [kind |-> "ok", transaction |-> tx[p].row]
       IN  /\ helperOut' = [helperOut EXCEPT ![p] = out]
           /\ \E id \in RandomIds : apiOut' = [apiOut EXCEPT ![p] = Returned(req[p], out, id)]
    /\ UNCHANGED <<openingAtCreate, stockTxSeq, req, tx>>

\* the route handler sends the returned object: res.status(201).json(transaction).
Respond(p) ==
    /\ pc[p] = "respond"
    /\ UNCHANGED others
    /\ pc' = [pc EXCEPT ![p] = "idle"]
    /\ req' = [q \in Procs |-> IF q = p THEN NoReq
                              ELSE [req[q] EXCEPT !.during = @ \ {p}]]
    /\ tx' = [tx EXCEPT ![p] = NoTx]
    /\ helperOut' = [helperOut EXCEPT ![p] = NoOut]
    /\ apiOut' = [apiOut EXCEPT ![p] = NoRow]
    /\ UNCHANGED <<products, openingAtCreate, stockTransactions, stockTxSeq, conn>>

Next ==
    \/ \E o \in OpeningSet : CreateProduct(o)
    \/ \E id \in ProductIds, o \in OpeningSet : UpdateProduct(id, o)
    \/ \E p \in Procs, r \in Requests : Call(p, r)
    \/ \E p \in Procs : TxBegin(p)
    \/ \E p \in Procs : TxSelect(p)
    \/ \E p \in Procs : TxUpdate(p)
    \/ \E p \in Procs : TxInsert(p)
    \/ \E p \in Procs : TxCommit(p)
    \/ \E p \in Procs : Respond(p)

Spec == Init /\ [][Next]_vars

\* ------------------------------- POST /api/stock-transactions/stock-out
\* A submission of several product lines, handled by one request handler.
\* batch.failed keeps the lines whose helper call threw, which the handler
\* itself never learns (createStockTransaction returns an object for them).
MaxLines == 3
BatchUser == 1
Handler == CHOOSE p \in Procs : \A q \in Procs : p <= q
LineSet == [productId : ProductIds, quantity : {20}]
BatchBodies == UNION {[1..n -> LineSet] : n \in 0..MaxLines}

BatchTransactionData(productData) ==
    [type |-> "stock_out", productId |-> productData.productId, userId |-> BatchUser,
     quantity |-> productData.quantity, poNumber |-> NullNumber, soNumber |-> NullNumber]

\* the array check: an empty products array is answered with 400.
BatchStart(p, body) ==
    /\ batch.state = "none"
    /\ pc[p] = "idle"
    /\ batch' = IF Len(body) = 0
                THEN [NoBatch EXCEPT !.state = "done", !.status = 400]
                ELSE [NoBatch EXCEPT !.state = "loop", !.lines = body]
    /\ UNCHANGED <<products, openingAtCreate, stockTransactions, stockTxSeq, conn,
                   pc, req, tx, helperOut, apiOut,
                   weeklyStockPlans, lowStockAlerts, now, chk, lastCheck, resolveOut>>

\* for (const productData of products): await storage.createStockTransaction(...)
BatchCall(p) ==
    /\ batch.state = "loop"
    /\ Len(batch.results) < Len(batch.lines)
    /\ Call(p, BatchTransactionData(batch.lines[Len(batch.results) + 1]))

\* results.push(transaction)
BatchPush(p) ==
    /\ batch.state = "loop"
    /\ pc[p] = "respond"
    /\ batch' = [batch EXCEPT !.results = Append(@, apiOut[p]),
                              !.failed = IF helperOut[p].kind = "ok" THEN @
                                         ELSE @ \cup {Len(batch.results) + 1}]
    /\ pc' = [pc EXCEPT ![p] = "idle"]
    /\ req' = [q \in Procs |-> IF q = p THEN NoReq
                              ELSE [req[q] EXCEPT !.during = @ \ {p}]]
    /\ tx' = [tx EXCEPT ![p] = NoTx]
    /\ helperOut' = [helperOut EXCEPT ![p] = NoOut]
    /\ apiOut' = [apiOut EXCEPT ![p] = NoRow]
    /\ UNCHANGED <<products, openingAtCreate, stockTransactions, stockTxSeq, conn,
                   weeklyStockPlans, lowStockAlerts, now, chk, lastCheck, resolveOut>>

\* res.status(201).json(results)
BatchRespond(p) ==
    /\ batch.state = "loop"
    /\ pc[p] = "idle"
    /\ Len(batch.results) = Len(batch.lines)
    /\ batch' = [batch EXCEPT !.state = "done", !.status = 201]
    /\ UNCHANGED <<products, openingAtCreate, stockTransactions, stockTxSeq, conn,
                   pc, req, tx, helperOut, apiOut,
                   weeklyStockPlans, lowStockAlerts, now, chk, lastCheck, resolveOut>>

BatchNext ==
    \/ \E o \in OpeningSet : CreateProduct(o)
    \/ \E body \in BatchBodies : BatchStart(Handler, body)
    \/ BatchCall(Handler)
    \/ TxBegin(Handler)
    \/ TxSelect(Handler)
    \/ TxUpdate(Handler)
    \/ TxInsert(Handler)
    \/ TxCommit(Handler)
    \/ BatchPush(Handler)
    \/ BatchRespond(Handler)

SpecBatch == Init /\ [][BatchNext]_vars

\* ------------------------------------------------ weekly plans and alerts
\* Dates and timestamps are day numbers; `now` is the server clock.  A plan's
\* id is its position in weeklyStockPlans, an alert's id its position in
\* lowStockAlerts.
MaxNow == 2
MaxAlerts == 2
CreatedPlanIds == {1}
PlanIds == CreatedPlanIds \cup {2}
PlannedSet == {30, 35}
WindowSet == {<<1, 1>>}
AlertIds == 1..(MaxAlerts + 1)
CatalogAlertIds == {1}
StockSet == {0}
StockedSet == {20, 40}
AlertRequests == {r \in Requests : r.productId \in CreatedIds /\ r.userId \in Users
                                    /\ r.quantity = 20 /\ r.type = "stock_in"}
BothRequests == {r \in Requests : r.productId \in CreatedIds /\ r.userId \in Users
                                      /\ r.quantity = 20}

\* getCurrentWeekPlans: lte(weekStartDate, today), gte(weekEndDate, today).
InWindow(plan, today) == plan.weekStartDate <= today /\ plan.weekEndDate >= today

\* checkLowStockAlerts: currentStock < plannedQuantity.
LowStockOrEqual(currentStock, plannedQuantity) == currentStock <= plannedQuantity
LowStock(currentStock, plannedQuantity) == currentStock < plannedQuantity

\* The shortage descriptors of checkLowStockAlerts, as a set: the query has
\* no ORDER BY, so the loop may meet them in any order.
LowStockItemsCritical(prods, plans, today) ==
    {[productId |-> plans[i].productId, weeklyPlanId |-> i,
      currentStock |-> prods[plans[i].productId].currentStock,
      plannedQuantity |-> plans[i].plannedQuantity] :
        i \in {j \in 1..Len(plans) :
                  /\ plans[j].isActive
                  /\ InWindow(plans[j], today)
                  /\ 2 * prods[plans[j].productId].currentStock < plans[j].plannedQuantity}}
LowStockItems(prods, plans, today) ==
    {[productId |-> plans[i].productId, weeklyPlanId |-> i,
      currentStock |-> prods[plans[i].productId].currentStock,
      plannedQuantity |-> plans[i].plannedQuantity] :
        i \in {j \in 1..Len(plans) :
                  /\ plans[j].isActive
                  /\ InWindow(plans[j], today)
                  /\ LowStock(prods[plans[j].productId].currentStock,
                              plans[j].plannedQuantity)}}

\* select ... where productId = ? and weeklyPlanId = ? and isResolved = false
ExistingAlertNever(alerts, item) == {}
ExistingAlertAny(alerts, item) ==
    {i \in 1..Len(alerts) : /\ alerts[i].productId = item.productId
                            /\ alerts[i].weeklyPlanId = item.weeklyPlanId}
ExistingAlertSameStock(alerts, item) ==
    {i \in 1..Len(alerts) : /\ alerts[i].productId = item.productId
                            /\ alerts[i].weeklyPlanId = item.weeklyPlanId
                            /\ alerts[i].currentStock = item.currentStock
                            /\ ~alerts[i].isResolved}
ExistingAlert(alerts, item) ==
    {i \in 1..Len(alerts) : /\ alerts[i].productId = item.productId
                            /\ alerts[i].weeklyPlanId = item.weeklyPlanId
                            /\ ~alerts[i].isResolved}

\* currentStock <= plannedQuantity * 0.5 (halving a double is exact).
AlertLevelStrict(currentStock, plannedQuantity) ==
    IF 2 * currentStock < plannedQuantity THEN "critical" ELSE "low"
AlertLevel(currentStock, plannedQuantity) ==
    IF 2 * currentStock <= plannedQuantity THEN "critical" ELSE "low"

NewAlertSwapped(id, item) ==
    [id |-> id, productId |-> item.productId, weeklyPlanId |-> item.weeklyPlanId,
     currentStock |-> NumericRound(item.plannedQuantity, 0),
     plannedQuantity |-> NumericRound(item.currentStock, 0),
     alertLevel |-> AlertLevel(item.currentStock, item.plannedQuantity),
     isResolved |-> FALSE, resolvedAt |-> 0]
NewAlert(id, item) ==
    [id |-> id, productId |-> item.productId, weeklyPlanId |-> item.weeklyPlanId,
     currentStock |-> NumericRound(item.currentStock, 0),
     plannedQuantity |-> NumericRound(item.plannedQuantity, 0),
     alertLevel |-> AlertLevel(item.currentStock, item.plannedQuantity),
     isResolved |-> FALSE, resolvedAt |-> 0]

\* lowStockAlertQueries.create: a plain insert.
InsertAlertRefresh(alerts, a) ==
    Append([i \in 1..Len(alerts) |->
               IF alerts[i].productId = a.productId /\ alerts[i].weeklyPlanId = a.weeklyPlanId
               THEN [alerts[i] EXCEPT !.currentStock = a.currentStock]
               ELSE alerts[i]], a)
InsertAlertOnce(alerts, a) == IF ExistingAlert(alerts, a) # {} THEN alerts ELSE Append(alerts, a)
InsertAlert(alerts, a) == Append(alerts, a)

\* update ... set isResolved = true, resolvedAt = now() where id = ?
ResolveFlagOnly(alerts, id, time) == [alerts EXCEPT ![id].isResolved = TRUE]
ResolveAlert(alerts, id, time) ==
    [alerts EXCEPT ![id].isResolved = TRUE, ![id].resolvedAt = time]

\* lastCheck follows the serialized invocations of processLowStockChecking:
\* calm holds while the running invocation has met no change of a plan, an
\* alert, the date or a stock level, quiet holds while nothing such has
\* happened since an undisturbed invocation returned; ntx and nprod count
\* the stock transactions and products seen then.
Disturbed == [lastCheck EXCEPT !.quiet = FALSE, !.calm = FALSE]
SameStock == lastCheck.ntx = Len(stockTransactions) /\ lastCheck.nprod = Len(products)

stockVars == <<products, openingAtCreate, stockTransactions, stockTxSeq, conn,
               pc, req, tx, helperOut, apiOut>>

Tick ==
    /\ now < MaxNow
    /\ now' = now + 1
    /\ lastCheck' = Disturbed
    /\ UNCHANGED <<stockVars, weeklyStockPlans, lowStockAlerts, chk, resolveOut, batch>>

\* productQueries.delete: the soft delete.
DeleteProduct(id) ==
    /\ ConnFree
    /\ ProductExists(products, id)
    /\ products' = [products EXCEPT ![id].isActive = 0]
    /\ UNCHANGED <<openingAtCreate, stockTransactions, stockTxSeq, conn, pc, req, tx,
                   helperOut, apiOut, others>>

\* productQueries.updateStock: writes currentStock directly.
ProductUpdateStock(id, newStock) ==
    /\ ConnFree
    /\ ProductExists(products, id)
    /\ products' = [products EXCEPT ![id].currentStock = NumericRound(newStock, 0)]
    /\ lastCheck' = Disturbed
    /\ UNCHANGED <<openingAtCreate, stockTransactions, stockTxSeq, conn, pc, req, tx,
                   helperOut, apiOut,
                   weeklyStockPlans, lowStockAlerts, now, chk, resolveOut, batch>>

\* weeklyStockPlanQueries.create; the insert fails on an unknown product.
PlanCreate(productId, plannedQuantity, window) ==
    /\ ConnFree
    /\ Len(weeklyStockPlans) + 1 \in CreatedPlanIds
    /\ weeklyStockPlans' =
          IF ProductExists(products, productId)
          THEN Append(weeklyStockPlans,
                      [productId |-> productId,
                       plannedQuantity |-> NumericRound(plannedQuantity, 0),
                       weekStartDate |-> window[1], weekEndDate |-> window[2],
                       isActive |-> TRUE])
          ELSE weeklyStockPlans
    /\ lastCheck' = Disturbed
    /\ UNCHANGED <<stockVars, lowStockAlerts, now, chk, resolveOut, batch>>

\* weeklyStockPlanQueries.update; an unknown id throws and changes nothing.
PlanUpdate(id, plannedQuantity, window) ==
    /\ ConnFree
    /\ weeklyStockPlans' =
          IF id \in 1..Len(weeklyStockPlans)
          THEN [weeklyStockPlans EXCEPT
                   ![id].plannedQuantity = NumericRound(plannedQuantity, 0),
                   ![id].weekStartDate = window[1], ![id].weekEndDate = window[2]]
          ELSE weeklyStockPlans
    /\ lastCheck' = Disturbed
    /\ UNCHANGED <<stockVars, lowStockAlerts, now, chk, resolveOut, batch>>

\* weeklyStockPlanQueries.delete: deactivates.
PlanDelete(id) ==
    /\ ConnFree
    /\ id \in 1..Len(weeklyStockPlans)
    /\ weeklyStockPlans' = [weeklyStockPlans EXCEPT ![id].isActive = FALSE]
    /\ lastCheck' = Disturbed
    /\ UNCHANGED <<stockVars, lowStockAlerts, now, chk, resolveOut, batch>>

\* processLowStockChecking, first statement: the shortage descriptors.
Shortfalls(p) ==
    /\ ConnFree
    /\ chk[p].pc = "idle"
    /\ chk' = [chk EXCEPT ![p] =
                 [NoChk EXCEPT !.pc = "loop",
                               !.items = LowStockItems(products, weeklyStockPlans, now)]]
    /\ UNCHANGED <<stockVars, weeklyStockPlans, lowStockAlerts, now, resolveOut, batch>>

CheckStart(p) ==
    /\ Shortfalls(p)
    /\ UNCHANGED lastCheck

\* for (const item of lowStockItems): the existingAlert query.
CheckExisting(p) ==
    /\ ConnFree
    /\ chk[p].pc = "loop"
    /\ \E item \in chk[p].items :
          chk' = [chk EXCEPT ![p].items = @ \ {item},
                             ![p].pc = IF ExistingAlert(lowStockAlerts, item) = {}
                                       THEN "create" ELSE "loop",
                             ![p].item = IF ExistingAlert(lowStockAlerts, item) = {}
                                         THEN item ELSE NoRow]
    /\ UNCHANGED <<stockVars, weeklyStockPlans, lowStockAlerts, now, lastCheck,
                   resolveOut, batch>>

\* this.create({...}); newAlerts.push(alert): newAlerts holds the ids of the
\* rows that the inserts returned.
CheckCreate(p) ==
    /\ ConnFree
    /\ chk[p].pc = "create"
    /\ Len(lowStockAlerts) < MaxAlerts
    /\ LET alert == NewAlert(Len(lowStockAlerts) + 1, chk[p].item)
       IN  /\ lowStockAlerts' = InsertAlert(lowStockAlerts, alert)
           /\ chk' = [chk EXCEPT ![p].pc = "loop", ![p].item = NoRow,
                                 ![p].newAlerts =
                                    IF Len(lowStockAlerts') > Len(lowStockAlerts)
                                    THEN Append(@, alert.id) ELSE @]
    /\ UNCHANGED <<stockVars, weeklyStockPlans, now, lastCheck, resolveOut, batch>>

\* return newAlerts
ReturnNewAlerts(p) ==
    /\ chk[p].pc = "loop"
    /\ chk[p].items = {}
    /\ chk' = [chk EXCEPT ![p].pc = "done"]
    /\ UNCHANGED <<stockVars, weeklyStockPlans, lowStockAlerts, now, resolveOut, batch>>

CheckReturn(p) ==
    /\ ReturnNewAlerts(p)
    /\ UNCHANGED lastCheck

\* res.json({ newAlerts: newAlerts.length, alerts: newAlerts })
CheckRespond(p) ==
    /\ chk[p].pc = "done"
    /\ chk' = [chk EXCEPT ![p] = NoChk]
    /\ UNCHANGED <<stockVars, weeklyStockPlans, lowStockAlerts, now, lastCheck,
                   resolveOut, batch>>

\* lowStockAlertQueries.resolve
Resolve(id) ==
    /\ ConnFree
    /\ UNCHANGED <<stockVars, weeklyStockPlans, now, chk, batch>>
    /\ lastCheck' = Disturbed
    /\ IF id \in 1..Len(lowStockAlerts)
       THEN /\ lowStockAlerts' = ResolveAlert(lowStockAlerts, id, now)
            /\ resolveOut' = [kind |-> "ok"]
       ELSE /\ lowStockAlerts' = lowStockAlerts
            /\ resolveOut' = [kind |-> "AlertNotFound"]

\* two request handlers may run processLowStockChecking at once
AlertsNext ==
    \/ \E o \in StockedSet : CreateProduct(o)
    \/ Tick
    \/ \E id \in ProductIds, q \in PlannedSet, w \in WindowSet : PlanCreate(id, q, w)
    \/ \E id \in PlanIds, q \in PlannedSet, w \in WindowSet : PlanUpdate(id, q, w)
    \/ \E id \in PlanIds : PlanDelete(id)
    \/ \E p \in Procs : CheckStart(p)
    \/ \E p \in Procs : CheckExisting(p)
    \/ \E p \in Procs : CheckCreate(p)
    \/ \E p \in Procs : CheckReturn(p)
    \/ \E p \in Procs : CheckRespond(p)
    \/ \E id \in AlertIds : Resolve(id)

SpecAlerts == Init /\ [][AlertsNext]_vars

\* The invocations of processLowStockChecking are serialized by the caller,
\* while other requests mutate stock, plans and alerts.
Undisturbed == lastCheck.calm /\ SameStock

SerialCheckStart(p) ==
    /\ \A q \in Procs : chk[q].pc = "idle"
    /\ Shortfalls(p)
    /\ lastCheck' = [quiet |-> FALSE, calm |-> TRUE,
                     again |-> (lastCheck.quiet /\ SameStock), clean |-> FALSE,
                     ntx |-> Len(stockTransactions), nprod |-> Len(products)]

SerialCheckReturn(p) ==
    /\ ReturnNewAlerts(p)
    /\ lastCheck' = [lastCheck EXCEPT !.quiet = Undisturbed, !.calm = FALSE,
                                      !.clean = Undisturbed]

SerialNext ==
    \/ \E o \in OpeningSet : CreateProduct(o)
    \/ \E r \in AlertRequests : Call(Handler, r)
    \/ TxBegin(Handler)
    \/ TxSelect(Handler)
    \/ TxUpdate(Handler)
    \/ TxInsert(Handler)
    \/ TxCommit(Handler)
    \/ Respond(Handler)
    \/ \E id \in ProductIds, q \in PlannedSet, w \in WindowSet : PlanCreate(id, q, w)
    \/ \E id \in PlanIds, q \in PlannedSet, w \in WindowSet : PlanUpdate(id, q, w)
    \/ \E id \in PlanIds : PlanDelete(id)
    \/ \E p \in Procs : SerialCheckStart(p)
    \/ \E p \in Procs : CheckExisting(p)
    \/ \E p \in Procs : CheckCreate(p)
    \/ \E p \in Procs : SerialCheckReturn(p)
    \/ \E p \in Procs : CheckRespond(p)
    \/ \E id \in AlertIds : Resolve(id)

SpecSerial == Init /\ [][SerialNext]_vars

\* Every operation on products, plans and alerts, one request at a time.
CatalogNext ==
    \/ \E o \in OpeningSet : CreateProduct(o)
    \/ \E id \in CreatedIds, o \in OpeningSet : UpdateProduct(id, o)
    \/ \E id \in CreatedIds : DeleteProduct(id)
    \/ \E id \in CreatedIds, st \in StockSet : ProductUpdateStock(id, st)
    \/ \E r \in AlertRequests : Call(Handler, r)
    \/ TxBegin(Handler)
    \/ TxSelect(Handler)
    \/ TxUpdate(Handler)
    \/ TxInsert(Handler)
    \/ TxCommit(Handler)
    \/ Respond(Handler)
    \/ \E id \in CreatedIds, q \in PlannedSet, w \in WindowSet : PlanCreate(id, q, w)
    \/ \E id \in CreatedPlanIds, q \in PlannedSet, w \in WindowSet : PlanUpdate(id, q, w)
    \/ \E id \in CreatedPlanIds : PlanDelete(id)
    \/ CheckStart(Handler)
    \/ CheckExisting(Handler)
    \/ CheckCreate(Handler)
    \/ CheckReturn(Handler)
    \/ CheckRespond(Handler)
    \/ \E id \in CatalogAlertIds : Resolve(id)

SpecCatalog == Init /\ [][CatalogNext]_vars

\* Stock-in and stock-out calls, plan maintenance, processLowStockChecking and
\* resolve, each from its own request.
FrameNext ==
    \/ \E o \in OpeningSet : CreateProduct(o)
    \/ \E r \in BothRequests : Call(Handler, r)
    \/ TxBegin(Handler)
    \/ TxSelect(Handler)
    \/ TxUpdate(Handler)
    \/ TxInsert(Handler)
    \/ TxCommit(Handler)
    \/ Respond(Handler)
    \/ \E id \in CreatedIds, q \in PlannedSet, w \in WindowSet : PlanCreate(id, q, w)
    \/ \E id \in CreatedPlanIds, q \in PlannedSet, w \in WindowSet : PlanUpdate(id, q, w)
    \/ \E id \in CreatedPlanIds : PlanDelete(id)
    \/ CheckStart(Handler)
    \/ CheckExisting(Handler)
    \/ CheckCreate(Handler)
    \/ CheckReturn(Handler)
    \/ CheckRespond(Handler)
    \/ \E id \in AlertIds : Resolve(id)

SpecFrame == Init /\ [][FrameNext]_vars

\* Stock-in and stock-out calls whose bodies carry a PO number, an SO
\* number, both or none.
NumberedRequests ==
    {[r EXCEPT !.poNumber = po, !.soNumber = so] :
        r \in BothRequests, po \in NumberSet, so \in NumberSet}

NumbersNext ==
    \/ \E o \in OpeningSet : CreateProduct(o)
    \/ \E p \in Procs, r \in NumberedRequests : Call(p, r)
    \/ \E p \in Procs : TxBegin(p)
    \/ \E p \in Procs : TxSelect(p)
    \/ \E p \in Procs : TxUpdate(p)
    \/ \E p \in Procs : TxInsert(p)
    \/ \E p \in Procs : TxCommit(p)
    \/ \E p \in Procs : Respond(p)

SpecNumbers == Init /\ [][NumbersNext]_vars

\* Plan requests with any planned quantity and any pair of dates: the bodies
\* that insertWeeklyStockPlanSchema lets through.
AnyPlannedSet == {-10, 0, 30}
AnyWindowSet == {<<1, 1>>, <<2, 1>>}

PlansNext ==
    \/ \E o \in StockedSet : CreateProduct(o)
    \/ Tick
    \/ \E id \in ProductIds, q \in AnyPlannedSet, w \in AnyWindowSet : PlanCreate(id, q, w)
    \/ \E id \in PlanIds, q \in AnyPlannedSet, w \in AnyWindowSet : PlanUpdate(id, q, w)
    \/ \E id \in PlanIds : PlanDelete(id)
    \/ CheckStart(Handler)
    \/ CheckExisting(Handler)
    \/ CheckCreate(Handler)
    \/ CheckReturn(Handler)
    \/ CheckRespond(Handler)
    \/ \E id \in AlertIds : Resolve(id)

SpecPlans == Init /\ [][PlansNext]_vars

\* ------------------------------------------------------------ properties
Max(a, b) == IF a >= b THEN a ELSE b

\* The call of p has ended and its response is not sent yet.
Finished(p) == pc[p] = "respond"

RECURSIVE SumQuantity(_, _, _, _)
SumQuantity(rows, i, id, type) ==
    IF i > Len(rows) THEN 0
    ELSE (IF rows[i].productId = id /\ rows[i].type = type THEN rows[i].quantity ELSE 0)
         + SumQuantity(rows, i + 1, id, type)

StockUnchanged ==
    /\ Len(products') >= Len(products)
    /\ \A id \in 1..Len(products) : products'[id].currentStock = products[id].currentStock

DbUnchanged == StockUnchanged /\ stockTransactions' = stockTransactions

\* C1: a product's currentStock equals the opening stock it was created with
\* plus the quantities of its recorded stock_in rows minus those of its
\* recorded stock_out rows.
C1_Balance ==
    \A id \in 1..Len(products) :
        products[id].currentStock =
            openingAtCreate[id] + SumQuantity(stockTransactions, 1, id, "stock_in")
                                - SumQuantity(stockTransactions, 1, id, "stock_out")

\* C2: no product ever has a currentStock below 0.
C2_NonNegative == \A id \in 1..Len(products) : products[id].currentStock >= 0

\* C3: two stock-out calls in progress at once on one product, each for more
\* than half of (and at most) the stock S that was available: exactly one
\* succeeds, the other fails with insufficient stock, and the product's stock
\* is S less the one accepted quantity (at the two fractional digits the
\* column keeps); no two calls are inside the read-modify-write at once.
C3_Case(p1, p2) ==
    /\ p1 # p2 /\ Finished(p1) /\ Finished(p2)
    /\ p1 \in req[p2].during \/ p2 \in req[p1].during
    /\ req[p1].type = "stock_out" /\ req[p2].type = "stock_out"
    /\ req[p1].productId = req[p2].productId
    /\ req[p1].userId \in Users /\ req[p2].userId \in Users
    /\ tx[p1].previousStock # NoStock /\ tx[p2].previousStock # NoStock
    /\ LET S == Max(tx[p1].previousStock, tx[p2].previousStock)
       IN  /\ req[p1].quantity <= S /\ 2 * req[p1].quantity > S
           /\ req[p2].quantity <= S /\ 2 * req[p2].quantity > S

C3_ConcurrentStockOut ==
    /\ Cardinality({p \in Procs : pc[p] \in {"select", "update", "insert", "commit"}}) <= 1
    /\ \A p1, p2 \in Procs :
        C3_Case(p1, p2) =>
            LET S == Max(tx[p1].previousStock, tx[p2].previousStock)
                won == {p \in {p1, p2} : helperOut[p].kind = "ok"}
                lost == {p \in {p1, p2} : helperOut[p].kind = "InsufficientStock"}
            IN  /\ Cardinality(won) = 1
                /\ Cardinality(lost) = 1
                /\ \A p \in won :
                    /\ tx[p].previousStock = S
                    /\ products[req[p].productId].currentStock = helperOut[p].transaction.newStock
                    /\ products[req[p].productId].currentStock
                            = StockOutNewStock(S, req[p].quantity)
                    /\ req[p].quantity % 10 = 0 =>
                          products[req[p].productId].currentStock = S - req[p].quantity

C3_Witness ==
    \E p1, p2 \in Procs :
        /\ C3_Case(p1, p2)
        /\ helperOut[p1].kind = "ok"
        /\ helperOut[p2].kind = "InsufficientStock"
        /\ helperOut[p2].available < tx[p1].previousStock

\* C4: a stock-out whose quantity exceeds the stock it reads fails with an
\* insufficient-stock error that carries the available and the requested
\* quantity; the step that rejects it, and every later step of the call,
\* leaves every product's stock and the transaction table as they were, and
\* nothing is left buffered.
C4_InsufficientStock ==
    [][\A p \in Procs :
        /\ ( /\ pc[p] = "select" /\ pc'[p] # "select"
             /\ req[p].type = "stock_out"
             /\ ProductExists(products, req[p].productId)
             /\ req[p].quantity > products[req[p].productId].currentStock )
           => /\ pc'[p] = "respond"
              /\ helperOut'[p] = [kind |-> "InsufficientStock",
                                  available |-> products[req[p].productId].currentStock,
                                  requested |-> req[p].quantity]
              /\ ~tx'[p].updated /\ tx'[p].row = NoRow /\ p \notin conn'
        /\ (pc'[p] # pc[p] /\ helperOut'[p].kind = "InsufficientStock") => DbUnchanged
      ]_vars

C4_Witness ==
    \E p \in Procs :
        /\ pc[p] = "respond"
        /\ helperOut[p].kind = "InsufficientStock"
        /\ helperOut[p].requested > helperOut[p].available
        /\ helperOut[p].available > 0

\* C5: a stock-out on an existing product is rejected for insufficient stock
\* exactly when its quantity exceeds the stock it reads, and (its row being
\* insertable) accepted exactly when quantity <= that stock; a request for
\* the whole stock is accepted and sets the product's currentStock to 0.
C5_AcceptedIffWithinStock ==
    /\ [](\A p \in Procs :
            (Finished(p) /\ req[p].type = "stock_out" /\ tx[p].previousStock # NoStock) =>
                /\ helperOut[p].kind = "InsufficientStock"
                      <=> req[p].quantity > tx[p].previousStock
                /\ req[p].userId \in Users =>
                      (helperOut[p].kind = "ok" <=> req[p].quantity <= tx[p].previousStock)
                /\ (helperOut[p].kind = "ok" /\ req[p].quantity = tx[p].previousStock) =>
                      helperOut[p].transaction.newStock = 0)
    /\ [][\A p \in Procs :
            ( /\ pc[p] = "commit" /\ pc'[p] = "respond"
              /\ req[p].type = "stock_out"
              /\ req[p].quantity = tx[p].previousStock )
            => products'[req[p].productId].currentStock = 0
         ]_vars

C5_Witness ==
    \E p \in Procs :
        /\ pc[p] = "respond"
        /\ req[p].type = "stock_out"
        /\ helperOut[p].kind = "ok"
        /\ req[p].quantity = tx[p].previousStock
        /\ req[p].quantity > 0
        /\ products[req[p].productId].currentStock = 0

\* C6: in every step either the transaction table and every product's stock
\* stay as they were, or exactly one row is appended and, in the same step,
\* the stock of that row's product becomes the row's newStock while every
\* other product's stock stays.
C6_AllOrNothing ==
    [][ \/ DbUnchanged
        \/ /\ Len(stockTransactions') = Len(stockTransactions) + 1
           /\ SubSeq(stockTransactions', 1, Len(stockTransactions)) = stockTransactions
           /\ Len(products') = Len(products)
           /\ LET t == stockTransactions'[Len(stockTransactions')]
              IN  /\ ProductExists(products, t.productId)
                  /\ products'[t.productId].currentStock = t.newStock
                  /\ \A id \in 1..Len(products) :
                        id # t.productId =>
                            products'[id].currentStock = products[id].currentStock
      ]_vars

C6_Witness ==
    \E p \in Procs :
        /\ pc[p] = "respond"
        /\ helperOut[p].kind = "StorageError"
        /\ tx[p].updated
        /\ tx[p].newStock # tx[p].previousStock
        /\ products[req[p].productId].currentStock = tx[p].previousStock
        /\ stockTransactions = <<>>

\* C7: every recorded row has newStock = previousStock + quantity when it is
\* a stock_in, and newStock = previousStock - quantity with
\* previousStock >= quantity when it is a stock_out.
C7_RowArithmetic ==
    \A i \in 1..Len(stockTransactions) :
        LET t == stockTransactions[i]
        IN  /\ t.type = "stock_in" => t.newStock = t.previousStock + t.quantity
            /\ t.type = "stock_out" =>
                  t.newStock = t.previousStock - t.quantity /\ t.previousStock >= t.quantity

\* C8: every recorded row has quantity > 0 (a request with a zero or negative
\* quantity is rejected before anything is committed).
C8_PositiveQuantity ==
    \A i \in 1..Len(stockTransactions) : stockTransactions[i].quantity > 0

\* C9: a stock-in or stock-out call that names a product id that does not
\* exist fails with a product-not-found error; the step that rejects it, and
\* every later step of the call, leaves every product's stock and the
\* transaction table as they were, and nothing is left buffered.
C9_ProductNotFound ==
    [][\A p \in Procs :
        /\ ( /\ pc[p] = "select" /\ pc'[p] # "select"
             /\ ~ProductExists(products, req[p].productId) )
           => /\ pc'[p] = "respond"
              /\ helperOut'[p] = [kind |-> "NotFound"]
              /\ tx'[p] = NoTx /\ p \notin conn'
              /\ stockTxSeq' = stockTxSeq
        /\ (pc'[p] # pc[p] /\ helperOut'[p].kind # "none"
                /\ ~ProductExists(products, req[p].productId)) =>
              helperOut'[p].kind = "NotFound" /\ DbUnchanged
      ]_vars

C9_Witness ==
    \E p \in Procs :
        /\ pc[p] = "respond"
        /\ helperOut[p].kind = "NotFound"
        /\ Len(products) > 0
        /\ ~ProductExists(products, req[p].productId)

\* C10: every transaction object that createStockTransaction returns is a
\* row of the transaction table.
C10_ReturnedIsPersisted ==
    \A p \in Procs :
        pc[p] = "respond" =>
            \E i \in 1..Len(stockTransactions) : stockTransactions[i] = apiOut[p]

\* C11: once a line of a batch has failed, the batch applies no later line and
\* does not answer 201: the lines before the failed one stay applied, the
\* failed line and those after it are not applied.
C11_BatchStopsAtFailure ==
    \A k \in batch.failed :
        /\ Len(batch.results) = k
        /\ pc[Handler] = "idle"
        /\ batch.status # 201

\* Two alerts on the same (product, weeklyPlan) pair.
SamePair(a, b) == a.productId = b.productId /\ a.weeklyPlanId = b.weeklyPlanId

OpenDuplicates ==
    {pair \in (1..Len(lowStockAlerts)) \X (1..Len(lowStockAlerts)) :
        /\ pair[1] < pair[2]
        /\ SamePair(lowStockAlerts[pair[1]], lowStockAlerts[pair[2]])
        /\ ~lowStockAlerts[pair[1]].isResolved
        /\ ~lowStockAlerts[pair[2]].isResolved}

\* C12: no step changes or removes a stock transaction record that exists.
C12_TransactionsImmutable ==
    [][\A i \in 1..Len(stockTransactions) :
          /\ i <= Len(stockTransactions')
          /\ stockTransactions'[i] = stockTransactions[i]]_vars

C12_Witness ==
    /\ Len(stockTransactions) = 2
    /\ products[1].isActive = 0
    /\ products[1].currentStock # stockTransactions[2].newStock
    /\ Len(lowStockAlerts) >= 1
    /\ lowStockAlerts[1].isResolved

C14_OneOpenAlertPerPair == OpenDuplicates = {}

C14_Witness ==
    /\ Len(lowStockAlerts) = 2
    /\ SamePair(lowStockAlerts[1], lowStockAlerts[2])
    /\ lowStockAlerts[1].isResolved
    /\ ~lowStockAlerts[2].isResolved
    /\ lowStockAlerts[1].currentStock # lowStockAlerts[2].currentStock
    /\ Len(stockTransactions) >= 1

\* C15: the insert of an invocation that passed the existence check is not
\* conditional: it adds an unresolved alert for its item whatever other
\* invocations have inserted in between, so that two unresolved alerts on one
\* pair come to exist.
C15_InsertUnchecked ==
    [][\A p \in Procs :
          (chk[p].pc = "create" /\ chk'[p].pc = "loop") =>
              /\ Len(lowStockAlerts') = Len(lowStockAlerts) + 1
              /\ SamePair(lowStockAlerts'[Len(lowStockAlerts')], chk[p].item)
              /\ ~lowStockAlerts'[Len(lowStockAlerts')].isResolved]_vars

C15_Witness ==
    \E pair \in OpenDuplicates :
        \E p1, p2 \in Procs :
            /\ p1 # p2
            /\ chk[p1].newAlerts = <<pair[1]>>
            /\ chk[p2].newAlerts = <<pair[2]>>

\* C16: an invocation of processLowStockChecking that starts right after an
\* undisturbed invocation has returned, on the same date and with no change
\* of stock, plans or alerts before or during it, creates no alert and
\* returns the empty list.
C16_SecondCallCreatesNothing ==
    \A p \in Procs :
        (chk[p].pc = "done" /\ lastCheck.again /\ lastCheck.clean) =>
            chk[p].newAlerts = <<>>

C16_Witness ==
    \E p \in Procs :
        /\ chk[p].pc = "done" /\ lastCheck.again /\ lastCheck.clean
        /\ LowStockItems(products, weeklyStockPlans, now) # {}
        /\ Len(lowStockAlerts) = 1
        /\ ~lowStockAlerts[1].isResolved

\* C17: an alert is critical exactly when its detected stock is at most half
\* of the planned quantity, and low otherwise.
C17_AlertLevel ==
    \A i \in 1..Len(lowStockAlerts) :
        /\ lowStockAlerts[i].alertLevel \in {"critical", "low"}
        /\ lowStockAlerts[i].alertLevel = "critical"
              <=> 2 * lowStockAlerts[i].currentStock <= lowStockAlerts[i].plannedQuantity

C17_Witness ==
    /\ Len(lowStockAlerts) = 2
    /\ 2 * lowStockAlerts[1].currentStock = lowStockAlerts[1].plannedQuantity
    /\ lowStockAlerts[1].alertLevel = "critical"
    /\ 2 * lowStockAlerts[2].currentStock = lowStockAlerts[2].plannedQuantity + 10
    /\ lowStockAlerts[2].alertLevel = "low"

C19_Resolve ==
    [][\A id \in AlertIds :
          Resolve(id) =>
              IF id \in 1..Len(lowStockAlerts)
              THEN /\ resolveOut'.kind = "ok"
                   /\ Len(lowStockAlerts') = Len(lowStockAlerts)
                   /\ lowStockAlerts'[id].isResolved
                   /\ lowStockAlerts'[id].resolvedAt # 0
                   /\ ~lowStockAlerts[id].isResolved => lowStockAlerts'[id].resolvedAt = now
                   /\ \A i \in 1..Len(lowStockAlerts) :
                         i # id => lowStockAlerts'[i] = lowStockAlerts[i]
              ELSE /\ resolveOut'.kind = "AlertNotFound"
                   /\ lowStockAlerts' = lowStockAlerts]_vars

C19_Witness ==
    /\ resolveOut.kind = "AlertNotFound"
    /\ Len(lowStockAlerts) = 1
    /\ lowStockAlerts[1].isResolved
    /\ lowStockAlerts[1].resolvedAt = now

\* C20: no step changes any field of an alert that is resolved.
C20_ResolvedIsTerminal ==
    [][\A i \in 1..Len(lowStockAlerts) :
          lowStockAlerts[i].isResolved => lowStockAlerts'[i] = lowStockAlerts[i]]_vars

\* The ids of the alerts an invocation has created so far.
Created(p) == {chk[p].newAlerts[k] : k \in 1..Len(chk[p].newAlerts)}

\* The alerts on the pair of item that the invocation of p did not create.
Earlier(p, item) ==
    {i \in 1..Len(lowStockAlerts) \ Created(p) : SamePair(lowStockAlerts[i], item)}

\* An undisturbed invocation of p has just returned.
JustChecked(p) == chk[p].pc = "done" /\ lastCheck.quiet /\ SameStock

\* C21: when an undisturbed invocation of processLowStockChecking returns and
\* a shortage holds for a pair whose earlier alerts are all resolved, the
\* invocation has created exactly one alert for the pair, unresolved and
\* newer than the resolved ones; and no step of an invocation changes an
\* alert that exists.
C21_ReAlert ==
    /\ [](\A p \in Procs :
            JustChecked(p) =>
                \A item \in LowStockItems(products, weeklyStockPlans, now) :
                    (/\ Earlier(p, item) # {}
                     /\ \A i \in Earlier(p, item) : lowStockAlerts[i].isResolved)
                    => \E n \in Created(p) :
                          /\ SamePair(lowStockAlerts[n], item)
                          /\ ~lowStockAlerts[n].isResolved
                          /\ \A i \in Earlier(p, item) : i < n
                          /\ \A m \in Created(p) :
                                SamePair(lowStockAlerts[m], item) => m = n)
    /\ [][\A p \in Procs :
            chk'[p] # chk[p] =>
                \A i \in 1..Len(lowStockAlerts) :
                    /\ i <= Len(lowStockAlerts')
                    /\ lowStockAlerts'[i] = lowStockAlerts[i]]_vars

C21_Witness ==
    \E p \in Procs :
        /\ JustChecked(p)
        /\ Len(lowStockAlerts) = 2
        /\ SamePair(lowStockAlerts[1], lowStockAlerts[2])
        /\ lowStockAlerts[1].isResolved
        /\ lowStockAlerts[1].resolvedAt # 0
        /\ ~lowStockAlerts[2].isResolved
        /\ chk[p].newAlerts = <<2>>

\* C22: no step removes an alert or changes its product, plan, currentStock
\* snapshot, plannedQuantity snapshot or alertLevel, and a step that changes
\* anything else of an existing alert is a resolve of that alert: stock-in,
\* stock-out, plan create, update and deactivation, and the invocations of
\* processLowStockChecking leave the alerts that exist as they are.
C22_AlertsChangedOnlyByResolve ==
    [][\A i \in 1..Len(lowStockAlerts) :
          /\ i <= Len(lowStockAlerts')
          /\ lowStockAlerts'[i].productId = lowStockAlerts[i].productId
          /\ lowStockAlerts'[i].weeklyPlanId = lowStockAlerts[i].weeklyPlanId
          /\ lowStockAlerts'[i].currentStock = lowStockAlerts[i].currentStock
          /\ lowStockAlerts'[i].plannedQuantity = lowStockAlerts[i].plannedQuantity
          /\ lowStockAlerts'[i].alertLevel = lowStockAlerts[i].alertLevel
          /\ lowStockAlerts'[i] # lowStockAlerts[i] => Resolve(i)]_vars

C22_Witness ==
    /\ Len(lowStockAlerts) = 1
    /\ ~lowStockAlerts[1].isResolved
    /\ lowStockAlerts[1].currentStock = 20
    /\ lowStockAlerts[1].plannedQuantity = 30
    /\ weeklyStockPlans[1].isActive
    /\ weeklyStockPlans[1].plannedQuantity = 40
    /\ products[1].currentStock = 40
    /\ Len(stockTransactions) = 1
    /\ chk[Handler].pc = "done"
    /\ chk[Handler].newAlerts = <<>>

\* C23: the step that inserts an alert stores, as its snapshots, the
\* product's currentStock and the plan's plannedQuantity that the tables hold
\* at that step.
C23_SnapshotAtInsert ==
    [][Len(lowStockAlerts') > Len(lowStockAlerts) =>
          LET a == lowStockAlerts'[Len(lowStockAlerts')]
          IN  /\ a.currentStock = products[a.productId].currentStock
              /\ a.plannedQuantity = weeklyStockPlans[a.weeklyPlanId].plannedQuantity]_vars

\* C24: every recorded stock_in transaction has a null SO number and every
\* recorded stock_out transaction has a null PO number.
C24_NumbersByType ==
    \A i \in 1..Len(stockTransactions) :
        /\ stockTransactions[i].type = "stock_in" =>
              stockTransactions[i].soNumber = NullNumber
        /\ stockTransactions[i].type = "stock_out" =>
              stockTransactions[i].poNumber = NullNumber

\* A stock-in and a stock-out are recorded, each with the number of its type,
\* and the body of the second one supplied both numbers.
C24_Witness ==
    \E p \in Procs :
        /\ Len(stockTransactions) = 2
        /\ stockTransactions[1].type = "stock_in"
        /\ stockTransactions[1].poNumber # NullNumber
        /\ stockTransactions[2].type = "stock_out"
        /\ stockTransactions[2].soNumber # NullNumber
        /\ Finished(p)
        /\ helperOut[p].kind = "ok"
        /\ helperOut[p].transaction = stockTransactions[2]
        /\ req[p].poNumber # NullNumber

\* C25: a product is created with currentStock equal to openingStock, and no
\* step changes the openingStock of a product that exists.
C25_OpeningStockFixed ==
    [][/\ \A id \in 1..Len(products) :
            /\ id <= Len(products')
            /\ products'[id].openingStock = products[id].openingStock
       /\ \A id \in (Len(products) + 1)..Len(products') :
            products'[id].currentStock = products'[id].openingStock]_vars

\* C26: every stored weekly plan has weekStartDate <= weekEndDate and
\* plannedQuantity > 0.
C26_PlanValid ==
    \A i \in 1..Len(weeklyStockPlans) :
        /\ weeklyStockPlans[i].weekStartDate <= weeklyStockPlans[i].weekEndDate
        /\ weeklyStockPlans[i].plannedQuantity > 0

\* The ids, in increasing order, of the transactions of product id: the
\* positions in stockTransactions, which is kept in commit order.
RowsOf(id) == {i \in 1..Len(stockTransactions) : stockTransactions[i].productId = id}

\* The transactions of every product form a chain that starts at opening[id]
\* and ends at the product's currentStock.
LedgerChain(opening) ==
    \A id \in 1..Len(products) :
        /\ \A i \in RowsOf(id) :
              /\ \A j \in 1..Len(stockTransactions) :
                    i < j => stockTransactions[i].id < stockTransactions[j].id
              /\ stockTransactions[i].previousStock =
                    IF \E k \in RowsOf(id) : k < i
                    THEN stockTransactions[CHOOSE k \in RowsOf(id) :
                             k < i /\ \A m \in RowsOf(id) : m < i => m <= k].newStock
                    ELSE opening[id]
        /\ products[id].currentStock =
              IF RowsOf(id) = {} THEN opening[id]
              ELSE stockTransactions[CHOOSE k \in RowsOf(id) :
                       \A m \in RowsOf(id) : m <= k].newStock

\* C27: for every product, the first transaction's previousStock is the
\* product's openingStock, each later one's previousStock is the newStock of
\* the one before it, and currentStock is the newStock of the latest one, or
\* openingStock when there is none.
C27_LedgerChain == LedgerChain([id \in 1..Len(products) |-> products[id].openingStock])

\* Two calls on one product that overlapped in time and both succeeded, at
\* least one of them a stock-in, each with a quantity that is not zero.
C28_Case(p1, p2) ==
    /\ p1 # p2 /\ Finished(p1) /\ Finished(p2)
    /\ p1 \in req[p2].during \/ p2 \in req[p1].during
    /\ req[p1].type = "stock_in"
    /\ req[p1].productId = req[p2].productId
    /\ req[p1].quantity # 0 /\ req[p2].quantity # 0
    /\ helperOut[p1].kind = "ok" /\ helperOut[p2].kind = "ok"

\* The change of stock that a request asks for.
Signed(r) == IF r.type = "stock_in" THEN r.quantity ELSE 0 - r.quantity

\* C28: of two such calls, the one recorded second starts from the stock the
\* first one stored, the product's currentStock is what the second one
\* stored, the two records differ in previousStock, and with quantities in
\* whole hundredths the final stock is the stock before the first one plus
\* both changes.
C28_NoLostUpdate ==
    \A p1, p2 \in Procs :
        C28_Case(p1, p2) =>
            LET t1 == helperOut[p1].transaction
                t2 == helperOut[p2].transaction
                first == IF t1.id < t2.id THEN t1 ELSE t2
                second == IF t1.id < t2.id THEN t2 ELSE t1
            IN  /\ t1.id # t2.id
                /\ t1.previousStock # t2.previousStock
                /\ second.previousStock = first.newStock
                /\ products[req[p1].productId].currentStock = second.newStock
                /\ (req[p1].quantity % 10 = 0 /\ req[p2].quantity % 10 = 0) =>
                      products[req[p1].productId].currentStock
                          = first.previousStock + Signed(req[p1]) + Signed(req[p2])

C28_Witness ==
    \E p1, p2 \in Procs :
        /\ C28_Case(p1, p2)
        /\ req[p2].type = "stock_out"
        /\ req[p1].quantity = 20 /\ req[p2].quantity = 20
        /\ helperOut[p1].transaction.id < helperOut[p2].transaction.id
        /\ p2 \in req[p1].during

\* C29: the alert that a step inserts has currentStock < plannedQuantity on
\* its own snapshots, is critical exactly when its currentStock is at most
\* half of its plannedQuantity and low otherwise, and is unresolved with a
\* null resolvedAt.
C29_CreatedAlert ==
    [][Len(lowStockAlerts') > Len(lowStockAlerts) =>
          /\ Len(lowStockAlerts') = Len(lowStockAlerts) + 1
          /\ LET a == lowStockAlerts'[Len(lowStockAlerts')]
             IN  /\ a.currentStock < a.plannedQuantity
                 /\ a.alertLevel =
                       IF 2 * a.currentStock <= a.plannedQuantity THEN "critical" ELSE "low"
                 /\ ~a.isResolved
                 /\ a.resolvedAt = 0]_vars

C29_Witness ==
    /\ Len(lowStockAlerts) = 2
    /\ lowStockAlerts[1].currentStock = 0
    /\ lowStockAlerts[1].alertLevel = "critical"
    /\ lowStockAlerts[1].isResolved
    /\ lowStockAlerts[2].currentStock = 20
    /\ lowStockAlerts[2].plannedQuantity = 30
    /\ lowStockAlerts[2].alertLevel = "low"
    /\ ~lowStockAlerts[2].isResolved
    /\ lowStockAlerts[2].resolvedAt = 0

\* C30: when an undisturbed invocation of processLowStockChecking has
\* returned, every active plan whose window holds the date and whose
\* product's currentStock is below its plannedQuantity has an unresolved
\* alert on its pair; and the list an invocation returns grows by exactly the
\* alert that the invocation inserts, at the step that inserts it.
C30_Coverage ==
    /\ [](\A p \in Procs :
            JustChecked(p) =>
                \A i \in 1..Len(weeklyStockPlans) :
                    (/\ weeklyStockPlans[i].isActive
                     /\ weeklyStockPlans[i].weekStartDate <= now
                     /\ now <= weeklyStockPlans[i].weekEndDate
                     /\ products[weeklyStockPlans[i].productId].currentStock
                           < weeklyStockPlans[i].plannedQuantity)
                    => \E n \in 1..Len(lowStockAlerts) :
                          /\ lowStockAlerts[n].productId = weeklyStockPlans[i].productId
                          /\ lowStockAlerts[n].weeklyPlanId = i
                          /\ ~lowStockAlerts[n].isResolved)
    /\ [][(chk' # chk \/ lowStockAlerts' # lowStockAlerts) =>
          /\ \A p \in Procs :
               (chk'[p].pc # "idle" /\ chk'[p].newAlerts # chk[p].newAlerts) =>
                   /\ Len(lowStockAlerts') = Len(lowStockAlerts) + 1
                   /\ chk'[p].newAlerts = Append(chk[p].newAlerts, Len(lowStockAlerts'))
                   /\ lowStockAlerts'[Len(lowStockAlerts')].id = Len(lowStockAlerts')
          /\ \A p \in Procs :
               (chk[p].pc = "idle" /\ chk'[p].pc # "idle") => chk'[p].newAlerts = <<>>
          /\ Len(lowStockAlerts') > Len(lowStockAlerts) =>
               \E p \in Procs : chk'[p].newAlerts # chk[p].newAlerts]_vars

C30_Witness ==
    \E p \in Procs :
        /\ JustChecked(p)
        /\ chk[p].newAlerts = <<1>>
        /\ Len(lowStockAlerts) = 1
        /\ ~lowStockAlerts[1].isResolved
        /\ Len(stockTransactions) = 1
        /\ products[1].currentStock = 20
        /\ lowStockAlerts[1].currentStock = 20
        /\ weeklyStockPlans[1].isActive

====
